---- MODULE Spec2Model ----
(***************************************************************************)
(* PricingAI: the pricing impact engine (backend/pricing/calculator.py)    *)
(* and the request layer that feeds it (backend/main.py).                  *)
(*                                                                         *)
(* Numbers.  pandas/numpy work on IEEE doubles.  A number is modelled as   *)
(* an exact fraction [n, d] in lowest terms with d > 0; the non-finite     *)
(* doubles are the fractions with d = 0: NaN = 0/0, +Infinity = 1/0,       *)
(* -Infinity = -1/0, so that x/0 is computed the way numpy computes it     *)
(* (a warning, no exception).  pandas' "absent" cell is NaN.  Python's     *)
(* None (only ever the value of new_gp) is the separate value NoneVal.     *)
(* round(x, k) is round-half-to-even on the exact value.                   *)
(***************************************************************************)
EXTENDS Integers, Sequences, FiniteSets, TLC

VARIABLES
    base_data,    \* PriceCalculator.base_data: the snapshot the engine holds
    base0,        \* history: base_data as it was at construction
    market_data,  \* the working copy of the last analyze_market_impact call,
                  \* as it was when the call returned or raised
    call,         \* the engine call last made (its arguments)
    result,       \* what that call returned, or the error it raised
    pc,           \* "idle" | "returned"
    table,        \* the backing table (rows of the CSV file) as it is now
    csv0,         \* history: the backing table as it was at process start
    response      \* the last HTTP response, with the request that caused it

vars == <<base_data, base0, market_data, call, result, pc, table, csv0, response>>

-----------------------------------------------------------------------------
(* Bounds of the model *)

MaxSkus == 2
MaxShareSkus == 4
MaxChanges == 3

-----------------------------------------------------------------------------
(* Numbers *)

Abs(x) == IF x < 0 THEN -x ELSE x

Sign(x) == IF x < 0 THEN -1 ELSE IF x = 0 THEN 0 ELSE 1

RECURSIVE GCD(_, _)
GCD(a, b) == IF b = 0 THEN a ELSE GCD(b, a % b)

RECURSIVE Pow10(_)
Pow10(k) == IF k = 0 THEN 1 ELSE 10 * Pow10(k - 1)

\* The double with value n/d (d any integer; d = 0 gives NaN or an infinity).
Frac(n, d) ==
    IF d = 0 THEN [n |-> Sign(n), d |-> 0]
    ELSE LET g == GCD(Abs(n), Abs(d))
             s == Sign(d)
         IN  [n |-> (s * n) \div g, d |-> (s * d) \div g]

Num(i) == [n |-> i, d |-> 1]
NaN == [n |-> 0, d |-> 0]
NoneVal == [n |-> 0, d |-> -1]

IsFinite(x) == x.d > 0
notna(x) == x # NaN

\* Products are reduced crosswise before multiplying, to keep the integers small.
Mul(a, b) ==
    IF IsFinite(a) /\ IsFinite(b)
    THEN LET g1 == GCD(Abs(a.n), b.d)
             g2 == GCD(Abs(b.n), a.d)
         IN  Frac((a.n \div g1) * (b.n \div g2), (a.d \div g2) * (b.d \div g1))
    ELSE Frac(Sign(a.n) * Sign(b.n), 0)
Inv(b) == Frac(b.d, b.n)
Div(a, b) == Mul(a, Inv(b))
Neg(a) == [n |-> -a.n, d |-> a.d]
Add(a, b) ==
    IF IsFinite(a) /\ IsFinite(b)
    THEN LET g == GCD(a.d, b.d)
         IN  Frac(a.n * (b.d \div g) + b.n * (a.d \div g), (a.d \div g) * b.d)
    ELSE IF a = NaN \/ b = NaN THEN NaN
    ELSE IF ~IsFinite(a) /\ ~IsFinite(b) THEN Frac(a.n + b.n, 0)
    ELSE IF IsFinite(a) THEN b ELSE a
Sub(a, b) == Add(a, Neg(b))

\* a <= b for finite a, b
Leq(a, b) == a.n * b.d <= b.n * a.d

\* Python's round(x, k): to k decimals, a tie to the even neighbour; NaN and
\* the infinities round to themselves.
PyRound(x, k) ==
    IF ~IsFinite(x) THEN x
    ELSE LET g    == GCD(Pow10(k), x.d)
             p    == Pow10(k) \div g
             den  == x.d \div g
             ip   == x.n \div x.d
             frac == (x.n - ip * x.d) * p
             q    == ip * Pow10(k) + (frac \div den)
             r    == frac % den
             up   == IF 2 * r > den THEN 1
                     ELSE IF 2 * r < den THEN 0
                     ELSE q % 2
         IN  Frac(q + up, Pow10(k))

\* Series.sum(): NaN cells are skipped, an empty sum is 0.
RECURSIVE SumSkipNa(_)
SumSkipNa(s) ==
    IF s = <<>> THEN Num(0)
    ELSE IF notna(Head(s)) THEN Add(Head(s), SumSkipNa(Tail(s)))
    ELSE SumSkipNa(Tail(s))

-----------------------------------------------------------------------------
(* The engine: backend/pricing/calculator.py *)

Names(data) == {data[i].name : i \in 1..Len(data)}

\* data[data['name'] == sku_name]: the matching rows, in table order
Matching(data, sku_name) == SelectSeq(data, LAMBDA row : row.name = sku_name)

IndexError == [kind |-> "error", err |-> "IndexError"]

\* calculate_price_impact with the revenue taken from the rounded price and
\* volume instead of the unrounded ones
CalculateFromRounded(data, sku_name, price_change_percent) ==
    IF Matching(data, sku_name) = <<>> THEN IndexError
    ELSE
    LET sku == Matching(data, sku_name)[1]
        price_multiplier == Add(Num(1), Div(price_change_percent, Num(100)))
        new_price == Mul(sku.customer_price, price_multiplier)
        volume_change_percent == Mul(sku.price_elasticity, price_change_percent)
        new_volume ==
            IF notna(sku.price_elasticity)
            THEN Mul(sku.volume_sold, Add(Num(1), Div(volume_change_percent, Num(100))))
            ELSE sku.volume_sold
        new_revenue == Mul(PyRound(new_price, 2), PyRound(new_volume, 2))
        new_gp == IF notna(sku.gp)
                  THEN Mul(new_revenue, Div(sku.gp, Num(100)))
                  ELSE NoneVal
    IN  [kind |-> "impact",
         new_price |-> PyRound(new_price, 2),
         new_volume |-> PyRound(new_volume, 2),
         new_revenue |-> PyRound(new_revenue, 2),
         new_gp |-> IF new_gp # NoneVal THEN PyRound(new_gp, 2) ELSE NoneVal,
         volume_change_percent |->
             PyRound(Mul(Div(Sub(new_volume, sku.volume_sold), sku.volume_sold),
                         Num(100)), 1)]

\* .iloc[0] of an empty selection raises IndexError.  The cells of the row are
\* numpy doubles: dividing by a volume_sold of 0 gives NaN or an infinity.
calculate_price_impact(data, sku_name, price_change_percent) ==
    IF Matching(data, sku_name) = <<>> THEN IndexError
    ELSE
    LET sku == Matching(data, sku_name)[1]
        price_multiplier == Add(Num(1), Div(price_change_percent, Num(100)))
        new_price == Mul(sku.customer_price, price_multiplier)
        volume_change_percent == Mul(sku.price_elasticity, price_change_percent)
        new_volume ==
            IF notna(sku.price_elasticity)
            THEN Mul(sku.volume_sold, Add(Num(1), Div(volume_change_percent, Num(100))))
            ELSE sku.volume_sold
        new_revenue == Mul(new_price, new_volume)
        new_gp == IF notna(sku.gp)
                  THEN Mul(new_revenue, Div(sku.gp, Num(100)))
                  ELSE NoneVal
    IN  [kind |-> "impact",
         new_price |-> PyRound(new_price, 2),
         new_volume |-> PyRound(new_volume, 2),
         new_revenue |-> PyRound(new_revenue, 2),
         new_gp |-> IF new_gp # NoneVal THEN PyRound(new_gp, 2) ELSE NoneVal,
         volume_change_percent |->
             PyRound(Mul(Div(Sub(new_volume, sku.volume_sold), sku.volume_sold),
                         Num(100)), 1)]

\* market_data['volume_sold'].sum()
TotalVolume(data) == SumSkipNa([i \in 1..Len(data) |-> data[i].volume_sold])

\* (market_data['customer_price'] * market_data['volume_sold']).sum()
TotalRevenue(data) ==
    SumSkipNa([i \in 1..Len(data) |-> Mul(data[i].customer_price, data[i].volume_sold)])

\* _calculate_market_shares with the shares rounded to whole percents
SharesRoundedToUnits(data) ==
    LET total_volume == TotalVolume(data)
        total_revenue == TotalRevenue(data)
        rows == {i \in 1..Len(data) : notna(data[i].volume_sold)}
    IN  [nm \in {data[i].name : i \in rows} |->
            LET sku == data[CHOOSE i \in rows : data[i].name = nm]
            IN  [volume_share |->
                     PyRound(Mul(Div(sku.volume_sold, total_volume), Num(100)), 0),
                 value_share |->
                     PyRound(Mul(Div(Mul(sku.customer_price, sku.volume_sold),
                                     total_revenue), Num(100)), 0)]]

calculate_market_shares(data) ==
    LET total_volume == TotalVolume(data)
        total_revenue == TotalRevenue(data)
        rows == {i \in 1..Len(data) : notna(data[i].volume_sold)}
        RowOf(nm) == data[CHOOSE i \in rows : data[i].name = nm
                                   /\ \A j \in rows : data[j].name = nm => j <= i]
    IN  [nm \in {data[i].name : i \in rows} |->
            LET sku == RowOf(nm)
                volume_share == Mul(Div(sku.volume_sold, total_volume), Num(100))
                revenue_share ==
                    Mul(Div(Mul(sku.customer_price, sku.volume_sold), total_revenue),
                        Num(100))
            IN  [volume_share |-> PyRound(volume_share, 1),
                 value_share |-> PyRound(revenue_share, 1)]]

\* market_data.at[idx, ...] = ...: the write goes to the first row named
\* sku_name of the working copy; the snapshot is a different object.
\* the write when market_data is the snapshot itself and no copy of it
WriteImpactAliased(base, market, sku_name, impact) ==
    LET idx == CHOOSE i \in 1..Len(market) : market[i].name = sku_name
        written == [market EXCEPT ![idx].volume_sold = impact.new_volume,
                                  ![idx].customer_price = impact.new_price]
    IN  [base |-> written, market |-> written]

WriteImpact(base, market, sku_name, impact) ==
    LET idx == CHOOSE i \in 1..Len(market) :
                   market[i].name = sku_name
                   /\ \A j \in 1..(i - 1) : market[j].name # sku_name
    IN  [base |-> base,
         market |-> [market EXCEPT ![idx].volume_sold = impact.new_volume,
                                   ![idx].customer_price = impact.new_price]]

\* The loop of analyze_market_impact from entry k on: the frames when the loop
\* ends, or the error that ends it.  (The steps take the values computed so
\* far as parameters.)
RECURSIVE ApplyChanges(_, _, _, _)

\* idx = ...; market_data.at[idx, ...] = ...; then the next entry
WriteAndGoOn(w, price_changes, k) == ApplyChanges(w.base, w.market, price_changes, k + 1)

\* impact = self.calculate_price_impact(sku_name, price_change): an exception
\* leaves the loop and the method
\* an entry whose SKU is not found is skipped and the loop goes on
WithImpactSkipping(base, market, price_changes, k, impact) ==
    IF impact.kind = "error"
    THEN ApplyChanges(base, market, price_changes, k + 1)
    ELSE WriteAndGoOn(WriteImpact(base, market, price_changes[k].sku_name, impact),
                      price_changes, k)

WithImpact(base, market, price_changes, k, impact) ==
    IF impact.kind = "error"
    THEN [kind |-> "error", err |-> impact.err, base |-> base, market |-> market]
    ELSE WriteAndGoOn(WriteImpact(base, market, price_changes[k].sku_name, impact),
                      price_changes, k)

\* the loop with each projection computed from the working copy
ApplyChangesCompounding(base, market, price_changes, k) ==
    IF k > Len(price_changes) THEN [kind |-> "ok", base |-> base, market |-> market]
    ELSE WithImpact(base, market, price_changes, k,
                    calculate_price_impact(market, price_changes[k].sku_name,
                                           price_changes[k].price_change))

ApplyChanges(base, market, price_changes, k) ==
    IF k > Len(price_changes) THEN [kind |-> "ok", base |-> base, market |-> market]
    ELSE WithImpact(base, market, price_changes, k,
                    calculate_price_impact(base, price_changes[k].sku_name,
                                           price_changes[k].price_change))

PercentChange(new, old) == PyRound(Mul(Div(Sub(new, old), old), Num(100)), 1)

\* The value analyze_market_impact returns: the totals before, the frame after.
MarketResult(total_market_volume, total_market_revenue, after) ==
    [kind |-> "market",
     market_volume_change |-> PercentChange(TotalVolume(after), total_market_volume),
     market_revenue_change |-> PercentChange(TotalRevenue(after), total_market_revenue),
     new_market_shares |-> calculate_market_shares(after)]

AnalyzeOutcome(total_market_volume, total_market_revenue, loop) ==
    [result |-> IF loop.kind = "error"
                THEN [kind |-> "error", err |-> loop.err]
                ELSE MarketResult(total_market_volume, total_market_revenue, loop.market),
     base |-> loop.base,
     market |-> loop.market]

\* market_data = self.base_data.copy()
Copy(data) == data

\* analyze_market_impact: [result, base, market], the returned value (or the
\* error raised) and the two frames when the call ends.
analyze_market_impact(data, price_changes) ==
    AnalyzeOutcome(TotalVolume(Copy(data)), TotalRevenue(Copy(data)),
                   ApplyChanges(data, Copy(data), price_changes, 1))

-----------------------------------------------------------------------------
(* The request layer: backend/main.py *)

\* A cell of the CSV file that holds text where a number is expected.
BadText == [n |-> 0, d |-> -2]

\* pd.to_numeric(column, errors='coerce'): what is no number becomes NaN.
to_numeric(cell) == IF cell = BadText THEN NaN ELSE cell

fillna0(x) == IF notna(x) THEN x ELSE Num(0)

\* load_sku_data: numeric coercion, rounding for display, then fillna(0).
load_sku_data(csv) ==
    [i \in 1..Len(csv) |->
        [name |-> csv[i].name,
         customer_price |-> fillna0(PyRound(to_numeric(csv[i].customer_price), 2)),
         gp |-> fillna0(PyRound(to_numeric(csv[i].gp), 4)),
         volume_sold |-> fillna0(PyRound(to_numeric(csv[i].volume_sold), 0)),
         price_elasticity |-> fillna0(PyRound(to_numeric(csv[i].price_elasticity), 2))]]

\* try: return impact / except Exception as e: raise HTTPException(400, str(e))
HttpResponse(route, outcome, csv) ==
    [route |-> route,
     status |-> IF outcome.kind = "error" THEN 400 ELSE 200,
     body |-> outcome,
     at |-> csv]

NoResponse == [route |-> "none", status |-> 0, body |-> [kind |-> "none"], at |-> <<>>]

-----------------------------------------------------------------------------
(* The inputs of the model *)

SkuNames == <<"A", "B", "C", "D", "E", "F", "G">>
Unknown == "ZZ"

Sku(p, v, e, g) ==
    [customer_price |-> p, volume_sold |-> v, price_elasticity |-> e, gp |-> g]

\* price 10, volume 100, elasticity -2, gp 20
SkuA == Sku(Num(10), Num(100), Num(-2), Num(20))
\* price 5, volume 200, no elasticity, no gp
SkuB == Sku(Num(5), Num(200), NaN, NaN)
\* nothing sold
SkuZero == Sku(Num(10), Num(0), Num(-2), Num(20))
\* volume unknown
SkuNoVolume == Sku(Num(10), NaN, Num(-2), NaN)
\* price 9.99, volume 33, elasticity -1.5, gp 12.5
SkuR == Sku(Frac(999, 100), Num(33), Frac(-3, 2), Frac(25, 2))
\* price 10, volume 1300, no elasticity, no gp
SkuBig == Sku(Num(10), Num(1300), NaN, NaN)

Profiles == {SkuA, SkuB, SkuZero, SkuNoVolume, SkuR}
ShareProfiles == {SkuA, SkuBig}

\* A table of the profiled rows, named A, B, ... in table order (names are unique).
Named(ps) ==
    [i \in 1..Len(ps) |->
        [name |-> SkuNames[i],
         customer_price |-> ps[i].customer_price,
         volume_sold |-> ps[i].volume_sold,
         price_elasticity |-> ps[i].price_elasticity,
         gp |-> ps[i].gp]]

SeqsUpTo(S, lo, hi) == UNION {[1..m -> S] : m \in lo..hi}

Snapshots ==
    {Named(ps) : ps \in SeqsUpTo(Profiles, 0, MaxSkus)
                        \cup SeqsUpTo(ShareProfiles, MaxSkus + 1, MaxShareSkus)}

\* The rows of the CSV file: a number, an empty cell (NaN) or text per cell.
RawA == Sku(Num(10), Num(100), Num(-2), Num(20))
RawB == Sku(Num(5), Num(200), NaN, NaN)
RawC == Sku(Frac(9994, 1000), Frac(334, 10), Frac(-3, 2), BadText)

RawProfiles == {RawA, RawB, RawC}
RawTables == {Named(ps) : ps \in SeqsUpTo(RawProfiles, 1, MaxSkus)}

PctsSingle == {Num(0), Num(10), Num(60), Frac(5, 2)}
PctsBatch == {Num(10), Num(60)}

\* The SKUs a batch names: the first row, the last row, one that is not there.
Targets(data) ==
    {Unknown} \cup (IF data = <<>> THEN {} ELSE {data[1].name, data[Len(data)].name})

ChangeLists(data) ==
    SeqsUpTo([sku_name : Targets(data), price_change : PctsBatch], 0, MaxChanges)

NoCall == [op |-> "none", sku_name |-> "", price_change_percent |-> NaN,
           price_changes |-> <<>>]

-----------------------------------------------------------------------------
(* The engine called directly *)

DoCalculatePriceImpact(sku_name, pct) ==
    /\ pc = "idle"
    /\ call' = [op |-> "calculate_price_impact", sku_name |-> sku_name,
                price_change_percent |-> pct, price_changes |-> <<>>]
    /\ result' = calculate_price_impact(base_data, sku_name, pct)
    /\ market_data' = <<>>
    /\ pc' = "returned"
    /\ UNCHANGED <<base_data, base0>>

AnalyzeEnds(price_changes, out) ==
    /\ call' = [op |-> "analyze_market_impact", sku_name |-> "",
                price_change_percent |-> NaN, price_changes |-> price_changes]
    /\ result' = out.result
    /\ market_data' = out.market
    /\ base_data' = out.base
    /\ pc' = "returned"
    /\ UNCHANGED base0

DoAnalyzeMarketImpact(price_changes) ==
    /\ pc = "idle"
    /\ AnalyzeEnds(price_changes, analyze_market_impact(base_data, price_changes))

\* The caller has taken the result; the working copy is garbage.
DoReturn ==
    /\ pc = "returned"
    /\ pc' = "idle"
    /\ call' = NoCall
    /\ result' = [kind |-> "none"]
    /\ market_data' = <<>>
    /\ UNCHANGED <<base_data, base0>>

CalculatePriceImpact ==
    /\ \E sku_name \in Names(base_data) \cup {Unknown}, pct \in PctsSingle :
           DoCalculatePriceImpact(sku_name, pct)
    /\ UNCHANGED <<table, csv0, response>>

AnalyzeMarketImpact ==
    /\ \E price_changes \in ChangeLists(base_data) :
           DoAnalyzeMarketImpact(price_changes)
    /\ UNCHANGED <<table, csv0, response>>

Return ==
    /\ DoReturn
    /\ UNCHANGED <<table, csv0, response>>

Init ==
    /\ base_data \in Snapshots
    /\ base0 = base_data
    /\ market_data = <<>>
    /\ call = NoCall
    /\ result = [kind |-> "none"]
    /\ pc = "idle"
    /\ table = <<>>
    /\ csv0 = <<>>
    /\ response = NoResponse

Next == CalculatePriceImpact \/ AnalyzeMarketImpact \/ Return

Spec == Init /\ [][Next]_vars

-----------------------------------------------------------------------------
(* The application: the process started by main.py and its routes *)

\* calculator = PriceCalculator(load_sku_data()), once, at import
InitApp ==
    /\ table \in RawTables
    /\ csv0 = table
    /\ base_data = load_sku_data(table)
    /\ base0 = base_data
    /\ market_data = <<>>
    /\ call = NoCall
    /\ result = [kind |-> "none"]
    /\ pc = "idle"
    /\ response = NoResponse

\* Somebody replaces the CSV file between two requests.
TableWrite ==
    /\ pc = "idle"
    /\ table' \in RawTables \ {table}
    /\ UNCHANGED <<base_data, base0, market_data, call, result, pc, csv0, response>>

\* GET /api/skus
GetSkus ==
    /\ pc = "idle"
    /\ response' = [route |-> "skus", status |-> 200,
                    body |-> load_sku_data(table), at |-> table]
    /\ pc' = "returned"
    /\ UNCHANGED <<base_data, base0, market_data, call, result, table, csv0>>

\* POST /api/pricing/calculate-impact
RouteCalculateImpact ==
    /\ \E sku_name \in Names(table) \cup Names(base_data) \cup {Unknown},
          pct \in PctsSingle :
           DoCalculatePriceImpact(sku_name, pct)
    /\ response' = HttpResponse("calculate-impact", result', table)
    /\ UNCHANGED <<table, csv0>>

\* POST /api/pricing/analyze-market
RouteAnalyzeMarket ==
    /\ \E price_changes \in ChangeLists(base_data) :
           DoAnalyzeMarketImpact(price_changes)
    /\ response' = HttpResponse("analyze-market", result', table)
    /\ UNCHANGED <<table, csv0>>

ResponseSent ==
    /\ DoReturn
    /\ response' = NoResponse
    /\ UNCHANGED <<table, csv0>>

NextApp ==
    TableWrite \/ GetSkus \/ RouteCalculateImpact \/ RouteAnalyzeMarket \/ ResponseSent

SpecApp == InitApp /\ [][NextApp]_vars

-----------------------------------------------------------------------------
(* Properties *)

AbsF(x) == [n |-> Abs(x.n), d |-> x.d]
Zero == Num(0)

\* r is x rounded to k decimals: r has at most k decimals and lies within half
\* a unit of the k-th decimal of x.
IsRounded(r, x, k) ==
    /\ IsFinite(r)
    /\ Pow10(k) % r.d = 0
    /\ Leq(AbsF(Sub(r, x)), Frac(1, 2 * Pow10(k)))

RowNamed(data, sku_name) ==
    data[CHOOSE i \in 1..Len(data) : data[i].name = sku_name]

Calculated == pc = "returned" /\ call.op = "calculate_price_impact"
Analyzed == pc = "returned" /\ call.op = "analyze_market_impact"

\* The projection of the specification for a row and a percentage.
RefPrice(sku, pct) == Mul(sku.customer_price, Frac(100 * pct.d + pct.n, 100 * pct.d))
RefVolume(sku, pct) ==
    IF sku.price_elasticity = NaN THEN sku.volume_sold
    ELSE Add(sku.volume_sold,
             Div(Mul(sku.volume_sold, Mul(sku.price_elasticity, pct)), Num(100)))
RefVolumeChange(sku, new_volume) ==
    Div(Mul(Sub(new_volume, sku.volume_sold), Num(100)), sku.volume_sold)

IsReference(r, sku, ref_price, ref_volume) ==
    /\ r.kind = "impact"
    /\ IsRounded(r.new_price, ref_price, 2)
    /\ IsRounded(r.new_volume, ref_volume, 2)
    /\ IsRounded(r.new_revenue, Mul(ref_price, ref_volume), 2)
    /\ IsRounded(r.volume_change_percent, RefVolumeChange(sku, ref_volume), 1)
    /\ sku.price_elasticity = NaN =>
           r.new_volume = sku.volume_sold /\ r.volume_change_percent = Zero

IsReferenceFor(r, sku, pct) == IsReference(r, sku, RefPrice(sku, pct), RefVolume(sku, pct))

\* C1: for a SKU of the snapshot whose volume_sold is a number other than 0,
\* calculate_price_impact returns the projection of the specification: the new
\* price, volume and revenue (the product of the unrounded price and volume)
\* rounded to 2 decimals, the volume change in percent rounded to 1 decimal, and
\* the volume unchanged when the SKU has no price_elasticity.
C1_ReferenceProjection ==
    (/\ Calculated
     /\ call.sku_name \in Names(base0)
     /\ IsFinite(RowNamed(base0, call.sku_name).volume_sold)
     /\ RowNamed(base0, call.sku_name).volume_sold # Zero)
    => IsReferenceFor(result, RowNamed(base0, call.sku_name), call.price_change_percent)

\* The scenario of the specification: price 10, volume 100, elasticity -2,
\* gp 20, +10% gives 11.0, 80.0, 880.0, 176.0 and -20.0.
C1_Witness ==
    /\ Calculated
    /\ call.sku_name = "A"
    /\ call.price_change_percent = Num(10)
    /\ base0[1].customer_price = Num(10) /\ base0[1].volume_sold = Num(100)
    /\ base0[1].price_elasticity = Num(-2) /\ base0[1].gp = Num(20)
    /\ result = [kind |-> "impact", new_price |-> Num(11), new_volume |-> Num(80),
                 new_revenue |-> Num(880), new_gp |-> Num(176),
                 volume_change_percent |-> Num(-20)]

NamedIn(price_changes, nm) ==
    \E j \in 1..Len(price_changes) : price_changes[j].sku_name = nm

LastNaming(price_changes, nm) ==
    CHOOSE j \in 1..Len(price_changes) :
        /\ price_changes[j].sku_name = nm
        /\ \A l \in (j + 1)..Len(price_changes) : price_changes[l].sku_name # nm

Projected(row, impact) ==
    [row EXCEPT !.volume_sold = impact.new_volume, !.customer_price = impact.new_price]

\* C2: when analyze_market_impact returns, the working copy holds, for every
\* SKU the change list names, the new_price and new_volume that
\* calculate_price_impact gives on the original snapshot for the percent of
\* the last entry naming that SKU; every other row is the snapshot's row.
C2_LastWriteFromOriginal ==
    (Analyzed /\ result.kind = "market")
    => /\ Len(market_data) = Len(base0)
       /\ \A i \in 1..Len(base0) :
            market_data[i] =
                IF NamedIn(call.price_changes, base0[i].name)
                THEN Projected(base0[i],
                        calculate_price_impact(base0, base0[i].name,
                            call.price_changes[LastNaming(call.price_changes,
                                                          base0[i].name)].price_change))
                ELSE base0[i]

\* The first row (10, 100, -2) is changed by +10% and then by +60%: the copy
\* holds 16 and -20 (not 17.6 and -16), the second row is untouched.
C2_Witness ==
    /\ Analyzed /\ result.kind = "market"
    /\ Len(base0) >= 2
    /\ call.price_changes = <<[sku_name |-> "A", price_change |-> Num(10)],
                              [sku_name |-> "A", price_change |-> Num(60)]>>
    /\ base0[1].customer_price = Num(10) /\ base0[1].volume_sold = Num(100)
    /\ base0[1].price_elasticity = Num(-2)
    /\ market_data[1].customer_price = Num(16)
    /\ market_data[1].volume_sold = Num(-20)
    /\ market_data[2] = base0[2]

\* C3: the snapshot the engine holds is never modified: after any calls,
\* successful or failing, base_data is what it was at construction.
C3_SnapshotNeverModified == base_data = base0

\* analyze_market_impact has written a new price and volume into its copy.
C3_Witness ==
    /\ Analyzed /\ result.kind = "market"
    /\ market_data # base0
    /\ base_data = base0

UnknownNamed ==
    \/ Calculated /\ call.sku_name \notin Names(base0)
    \/ Analyzed /\ \E j \in 1..Len(call.price_changes) :
                       call.price_changes[j].sku_name \notin Names(base0)

\* C4: a call that names a SKU absent from the snapshot (anywhere in the
\* change list) fails: what it yields is the error alone, no totals or shares;
\* the snapshot is as before, and once the caller has the error the engine is
\* in the state it was constructed in.
C4_UnknownSkuFails ==
    /\ UnknownNamed => /\ result = [kind |-> "error", err |-> "IndexError"]
                       /\ base_data = base0
    /\ pc = "idle" => /\ base_data = base0
                      /\ result = [kind |-> "none"]
                      /\ market_data = <<>>

\* The middle one of three changes names an unknown SKU.
C4_Witness ==
    /\ Analyzed
    /\ Len(call.price_changes) = 3
    /\ call.price_changes[1].sku_name \in Names(base0)
    /\ call.price_changes[2].sku_name \notin Names(base0)
    /\ call.price_changes[3].sku_name \in Names(base0)
    /\ result.kind = "error"

RECURSIVE SumFun(_, _)
SumFun(g, S) ==
    IF S = {} THEN Zero
    ELSE LET x == CHOOSE x \in S : TRUE
         IN  Add(g[x], SumFun(g, S \ {x}))

VolumeShares(shares) == [nm \in DOMAIN shares |-> shares[nm].volume_share]
ValueShares(shares) == [nm \in DOMAIN shares |-> shares[nm].value_share]

AllFinite(g) == \A x \in DOMAIN g : IsFinite(g[x])
NoneFinite(g) == \A x \in DOMAIN g : ~IsFinite(g[x])

\* |sum of g - 100| <= tol
SumsTo100(g, tol) == Leq(AbsF(Sub(SumFun(g, DOMAIN g), Num(100))), tol)

SharesWithin(g, total) ==
    IF total = Zero THEN NoneFinite(g)
    ELSE AllFinite(g) /\ SumsTo100(g, Frac(5 * Cardinality(DOMAIN g), 100))

ImpactDefined(r) ==
    /\ IsFinite(r.new_price) /\ IsFinite(r.new_volume) /\ IsFinite(r.new_revenue)
    /\ IsFinite(r.volume_change_percent)

MarketDefined(r) ==
    /\ IsFinite(r.market_volume_change) /\ IsFinite(r.market_revenue_change)
    /\ AllFinite(VolumeShares(r.new_market_shares))
    /\ AllFinite(ValueShares(r.new_market_shares))

\* C6: a zero denominator never yields NaN or an infinity in a returned
\* result: calculate_price_impact for a SKU with volume_sold = 0, and
\* analyze_market_impact when a total (volume or revenue, before or after
\* the changes) is 0, fail or return numbers.
C6_ZeroDenominatorHandled ==
    /\ (/\ Calculated /\ result.kind = "impact"
        /\ RowNamed(base0, call.sku_name).volume_sold = Zero)
       => ImpactDefined(result)
    /\ (/\ Analyzed /\ result.kind = "market"
        /\ base0 # <<>>
        /\ \A i \in 1..Len(base0) : IsFinite(base0[i].volume_sold)
        /\ Zero \in {TotalVolume(base0), TotalRevenue(base0),
                     TotalVolume(market_data), TotalRevenue(market_data)})
       => MarketDefined(result)

\* C9: for a change of 0 percent and a SKU with price >= 0 and volume >= 0,
\* calculate_price_impact returns the price and the volume of the SKU and a
\* volume change of 0.
C9_ZeroPercentIsIdentity ==
    (/\ Calculated /\ result.kind = "impact"
     /\ call.price_change_percent = Zero
     /\ IsFinite(RowNamed(base0, call.sku_name).volume_sold)
     /\ Leq(Zero, RowNamed(base0, call.sku_name).volume_sold)
     /\ Leq(Zero, RowNamed(base0, call.sku_name).customer_price))
    => /\ result.new_price = RowNamed(base0, call.sku_name).customer_price
       /\ result.new_volume = RowNamed(base0, call.sku_name).volume_sold
       /\ result.volume_change_percent = Zero

\* C10: analyze_market_impact with an empty change list reports a market
\* volume change of 0 and a market revenue change of 0, and the shares of the
\* unmodified snapshot, for every snapshot (here: of at least one SKU, each
\* with a volume).
C10_EmptyListIsBaseline ==
    (/\ Analyzed /\ call.price_changes = <<>>
     /\ base0 # <<>>
     /\ \A i \in 1..Len(base0) : IsFinite(base0[i].volume_sold))
    => /\ result.kind = "market"
       /\ result.market_volume_change = Zero
       /\ result.market_revenue_change = Zero
       /\ result.new_market_shares = calculate_market_shares(base0)

Engine(route, csv) ==
    IF route = "calculate-impact"
    THEN calculate_price_impact(load_sku_data(csv), call.sku_name,
                                call.price_change_percent)
    ELSE analyze_market_impact(load_sku_data(csv), call.price_changes).result

\* C7: the response of a pricing request is computed on the backing table as
\* it is when the request is made.
C7_FreshSnapshotPerRequest ==
    response.route \in {"calculate-impact", "analyze-market"}
    => response.body = Engine(response.route, response.at)

Absent(cell) == cell = NaN \/ cell = BadText

\* C8: a SKU whose gp is missing or no number in the backing table gets
\* new_gp = null from calculate-impact, and a missing price_elasticity reaches
\* the engine as absent; when gp is a number new_gp is a number.
C8_AbsentGpGivesNoNewGp ==
    (/\ response.route = "calculate-impact" /\ response.status = 200
     /\ call.sku_name \in Names(csv0))
    => /\ Absent(RowNamed(csv0, call.sku_name).gp) <=> response.body.new_gp = NoneVal
       /\ Absent(RowNamed(csv0, call.sku_name).price_elasticity)
          => RowNamed(base_data, call.sku_name).price_elasticity = NaN

====
